---------------------------- MODULE Spec2Model ----------------------------
(***************************************************************************)
(* RedisDataHandler (src/redis_data_handler.py): an adapter over a Redis   *)
(* database.  The model holds the database (store), one call frame per     *)
(* client (call) and a history variable (last) that remembers the latest   *)
(* publish_to_redis_json / publish_to_redis_str made to every key.         *)
(*                                                                         *)
(* A handler that issues several store commands is modelled one command    *)
(* per step, the local computation that follows a command being part of    *)
(* the step of that command.  Spec lets a single client run; SpecConc lets *)
(* two clients interleave their commands.                                  *)
(*                                                                         *)
(* Bytes and text: json.dumps (ensure_ascii) and Series.to_json            *)
(* (force_ascii) emit ASCII only, and the plain texts of the model are     *)
(* ASCII, so a text and its UTF-8 bytes are the same sequence.  A text is  *)
(* a sequence of tokens (TLA+ strings); its byte length is the sum of the  *)
(* token lengths.                                                          *)
(***************************************************************************)
EXTENDS Integers, Sequences, FiniteSets, TLC

\* ------------------------------------------------------------- bounds
\* The longest DataFrame handed to publish_dataframe.
MaxRows == 2
\* The longest Redis list the model lets publish_dataframe build.
MaxList == 2
\* The longest key list handed to delete_keys.
MaxKeys == 2

\* ------------------------------------------------------------ domains
Keys == {"a", "b"}
Procs == {1, 2}

\* Series.to_json renders a Timestamp as epoch milliseconds (date_unit 'ms');
\* a Timestamp itself counts nanoseconds.
NsPerMs == 1000000

\* The Timestamps (nanoseconds since the epoch) and the values of a row.
Timestamps == {0, NsPerMs}
RowValues == {1, 2}
Rows == [timestamp : Timestamps, value : RowValues]

\* All sequences over S of length at most n.
RECURSIVE SeqsUpTo(_, _)
SeqsUpTo(S, n) ==
    IF n = 0 THEN {<<>>}
    ELSE LET shorter == SeqsUpTo(S, n - 1)
         IN  shorter \cup {Append(s, x) : s \in {t \in shorter : Len(t) = n - 1}, x \in S}

DataFrames == SeqsUpTo(Rows, MaxRows)

\* ----------------------------------------------------- Python values
\* The JSON data model as Python sees it: None, int, str, list, dict (a dict
\* is its items in insertion order).
PyNone == [t |-> "null"]
PyInt(n) == [t |-> "int", n |-> n]
PyStr(s) == [t |-> "str", s |-> s]
PyList(items) == [t |-> "list", items |-> items]
PyDict(pairs) == [t |-> "dict", pairs |-> pairs]

\* The structured values handed to publish_to_redis_json.
JsonValues ==
    { PyInt(1),
      PyList(<<PyInt(1), PyStr("a")>>),
      PyDict(<<<<"k", PyList(<<PyNone>>)>>, <<"a", PyInt(2)>>>>) }

\* The plain texts handed to publish_to_redis_str (the empty text included).
PlainValues == { <<"hello">>, <<>> }

\* The integers and strings a JSON number or string token of the model may hold.
JsonInts == 0 .. 2
JsonStrs == {"a", "k", "timestamp", "value"}

\* ----------------------------------------------------------- texts
RECURSIVE ByteLen(_)
ByteLen(text) ==
    IF text = <<>> THEN 0 ELSE Len(Head(text)) + ByteLen(Tail(text))

Quote(s) == "\"" \o s \o "\""

\* json.dumps with its default separators (", " and ": ").
RECURSIVE Dumps(_)
RECURSIVE DumpsItems(_)
RECURSIVE DumpsPairs(_)
Dumps(v) ==
    CASE v.t = "null" -> <<"null">>
      [] v.t = "int"  -> <<ToString(v.n)>>
      [] v.t = "str"  -> <<Quote(v.s)>>
      [] v.t = "list" -> <<"[">> \o DumpsItems(v.items) \o <<"]">>
      [] v.t = "dict" -> <<"{">> \o DumpsPairs(v.pairs) \o <<"}">>
DumpsItems(items) ==
    IF items = <<>> THEN <<>>
    ELSE Dumps(Head(items))
         \o (IF Len(items) > 1 THEN <<", ">> ELSE <<>>)
         \o DumpsItems(Tail(items))
DumpsPairs(pairs) ==
    IF pairs = <<>> THEN <<>>
    ELSE <<Quote(Head(pairs)[1]), ": ">> \o Dumps(Head(pairs)[2])
         \o (IF Len(pairs) > 1 THEN <<", ">> ELSE <<>>)
         \o DumpsPairs(Tail(pairs))

\* Series.to_json of a row: compact separators, the Timestamp as epoch
\* milliseconds (the nanoseconds below a millisecond are dropped).
ToJson(row) ==
    << "{", Quote("timestamp"), ":", ToString(row.timestamp \div NsPerMs), ",",
       Quote("value"), ":", ToString(row.value), "}" >>

\* json.loads: a recursive descent over the tokens.  Parse*(toks, i) reads
\* from token i and answers [ok, val, next]; whitespace after a separator is
\* insignificant, so "," and ", " are the same separator.
IsComma(tok) == tok \in {",", ", "}
IsColon(tok) == tok \in {":", ": "}
IsIntTok(tok) == \E n \in JsonInts : ToString(n) = tok
IntOfTok(tok) == CHOOSE n \in JsonInts : ToString(n) = tok
IsStrTok(tok) == \E s \in JsonStrs : Quote(s) = tok
StrOfTok(tok) == CHOOSE s \in JsonStrs : Quote(s) = tok
ParseFail == [ok |-> FALSE]

RECURSIVE ParseValue(_, _)
RECURSIVE ParseItems(_, _, _)
RECURSIVE ParsePairs(_, _, _)
ParseValue(toks, i) ==
    IF i > Len(toks) THEN ParseFail
    ELSE LET tok == toks[i] IN
         CASE tok = "null"  -> [ok |-> TRUE, val |-> PyNone, next |-> i + 1]
           [] IsIntTok(tok) -> [ok |-> TRUE, val |-> PyInt(IntOfTok(tok)), next |-> i + 1]
           [] IsStrTok(tok) -> [ok |-> TRUE, val |-> PyStr(StrOfTok(tok)), next |-> i + 1]
           [] tok = "["     ->
                IF i + 1 <= Len(toks) /\ toks[i + 1] = "]"
                THEN [ok |-> TRUE, val |-> PyList(<<>>), next |-> i + 2]
                ELSE ParseItems(toks, i + 1, <<>>)
           [] tok = "{"     ->
                IF i + 1 <= Len(toks) /\ toks[i + 1] = "}"
                THEN [ok |-> TRUE, val |-> PyDict(<<>>), next |-> i + 2]
                ELSE ParsePairs(toks, i + 1, <<>>)
           [] OTHER         -> ParseFail
ParseItems(toks, i, acc) ==
    LET item == ParseValue(toks, i) IN
    IF ~item.ok \/ item.next > Len(toks) THEN ParseFail
    ELSE LET got == Append(acc, item.val) IN
         CASE toks[item.next] = "]"    -> [ok |-> TRUE, val |-> PyList(got), next |-> item.next + 1]
           [] IsComma(toks[item.next]) -> ParseItems(toks, item.next + 1, got)
           [] OTHER                    -> ParseFail
ParsePairs(toks, i, acc) ==
    IF i + 1 > Len(toks) \/ ~IsStrTok(toks[i]) \/ ~IsColon(toks[i + 1]) THEN ParseFail
    ELSE LET item == ParseValue(toks, i + 2) IN
         IF ~item.ok \/ item.next > Len(toks) THEN ParseFail
         ELSE LET name == StrOfTok(toks[i])
                  \* a repeated name keeps its first place and takes the later value
                  got  == IF \E j \in 1 .. Len(acc) : acc[j][1] = name
                          THEN [j \in 1 .. Len(acc) |->
                                   IF acc[j][1] = name THEN <<name, item.val>> ELSE acc[j]]
                          ELSE Append(acc, <<name, item.val>>)
              IN
              CASE toks[item.next] = "}"    -> [ok |-> TRUE, val |-> PyDict(got), next |-> item.next + 1]
                [] IsComma(toks[item.next]) -> ParsePairs(toks, item.next + 1, got)
                [] OTHER                    -> ParseFail

\* json.loads(text): the value, or a JSONDecodeError.
Loads(text) ==
    LET r == ParseValue(text, 1) IN
    IF r.ok /\ r.next = Len(text) + 1 THEN [ok |-> TRUE, val |-> r.val] ELSE ParseFail

\* ------------------------------------------------------------- store
\* A key holds nothing, or a value of one Redis type.
Absent == [type |-> "none"]
StrVal(text) == [type |-> "string", text |-> text]
ListVal(items) == [type |-> "list", items |-> items]
\* a set of members
SetVal(members) == [type |-> "set", members |-> members]
\* a set of <<member, score>>
ZSetVal(scored) == [type |-> "zset", scored |-> scored]
\* a set of <<field, value>>
HashVal(fields) == [type |-> "hash", fields |-> fields]

\* The answer of a store command: a value, or the error redis-py raises.
Ok(v) == [ok |-> TRUE, val |-> v]
WrongType == [ok |-> FALSE, err |-> "ResponseError"]

RECURSIVE SumLen(_)
SumLen(texts) ==
    IF texts = <<>> THEN 0 ELSE ByteLen(Head(texts)) + SumLen(Tail(texts))

\* All orders of a finite set, as sequences.
RECURSIVE Perms(_)
Perms(S) ==
    IF S = {} THEN {<<>>}
    ELSE UNION { {<<x>> \o q : q \in Perms(S \ {x})} : x \in S }

\* EXISTS, TYPE, KEYS *, GET, SET, DEL, RPUSH, LRANGE 0 -1.
Exists(s, key) == s[key].type # "none"
TypeOf(s, key) == s[key].type
AllKeys(s) == {k \in Keys : Exists(s, k)}
Get(s, key) ==
    CASE s[key].type = "none"   -> [ok |-> TRUE, found |-> FALSE]
      [] s[key].type = "string" -> [ok |-> TRUE, found |-> TRUE, val |-> s[key].text]
      [] OTHER                  -> WrongType
\* Mutant of Set: a key that holds a value keeps it (SET ... NX).
SetIfAbsent(s, key, text) ==
    IF s[key].type = "none" THEN [s EXCEPT ![key] = StrVal(text)] ELSE s
Set(s, key, text) == [s EXCEPT ![key] = StrVal(text)]
Del(s, key) == [s EXCEPT ![key] = Absent]
CanRPush(s, key) == s[key].type \in {"none", "list"}
RPush(s, key, text) ==
    [s EXCEPT ![key] = IF s[key].type = "list"
                       THEN ListVal(Append(s[key].items, text))
                       ELSE ListVal(<<text>>)]
LRange(s, key) ==
    CASE s[key].type = "none" -> Ok(<<>>)
      [] s[key].type = "list" -> Ok(s[key].items)
      [] OTHER                -> WrongType

\* STRLEN; then LLEN, SCARD, ZCARD, HLEN: the item count of a key that the
\* caller takes to be of type kind (a key that is gone counts 0).
Strlen(s, key) ==
    CASE s[key].type = "none"   -> Ok(0)
      [] s[key].type = "string" -> Ok(ByteLen(s[key].text))
      [] OTHER                  -> WrongType
CountItems(s, key, kind) ==
    CASE s[key].type = "none" -> Ok(0)
      [] s[key].type # kind   -> WrongType
      [] kind = "list"        -> Ok(Len(s[key].items))
      [] kind = "set"         -> Ok(Cardinality(s[key].members))
      [] kind = "zset"        -> Ok(Cardinality(s[key].scored))
      [] kind = "hash"        -> Ok(Cardinality(s[key].fields))

\* The byte sizes get_key_stats adds up over LRANGE, SMEMBERS, ZSCAN and
\* HGETALL: elements; members; member names, the scores left out; field
\* names and values.
\* Mutant of ItemLen: a hash field counts its value alone.
ItemLenValueOnly(kind, x) ==
    CASE kind = "set"  -> ByteLen(x)
      [] kind = "zset" -> ByteLen(x[1])
      [] kind = "hash" -> ByteLen(x[2])
ItemLen(kind, x) ==
    CASE kind = "set"  -> ByteLen(x)
      [] kind = "zset" -> ByteLen(x[1])
      [] kind = "hash" -> ByteLen(x[1]) + ByteLen(x[2])
RECURSIVE SumItems(_, _)
SumItems(kind, S) ==
    IF S = {} THEN 0
    ELSE LET x == CHOOSE y \in S : TRUE IN ItemLen(kind, x) + SumItems(kind, S \ {x})
ScanSize(s, key, kind) ==
    CASE s[key].type = "none" -> Ok(0)
      [] s[key].type # kind   -> WrongType
      [] kind = "list"        -> Ok(SumLen(s[key].items))
      [] kind = "set"         -> Ok(SumItems(kind, s[key].members))
      [] kind = "zset"        -> Ok(SumItems(kind, s[key].scored))
      [] kind = "hash"        -> Ok(SumItems(kind, s[key].fields))

\* ------------------------------------------------------------- state
VARIABLES
    store,   \* the Redis database: key -> value
    call,    \* client -> the frame of its current (or last finished) call
    last     \* key -> the latest publish_to_redis_json/_str since its deletion

vars == <<store, call, last>>

Idle == [op |-> "none", pc |-> "idle"]
NoPublish == [variant |-> "none"]

\* The databases a handler may be connected to.
InitStores ==
    { [k \in Keys |-> Absent],
      [k \in Keys |-> IF k = "a" THEN StrVal(<<"hello">>) ELSE Absent],
      [k \in Keys |-> IF k = "a" THEN SetVal({<<"m">>, <<"nn">>})
                      ELSE ZSetVal({<< <<"z">>, 1 >>, << <<"yyy">>, 2 >>})],
      [k \in Keys |-> IF k = "a" THEN HashVal({<< <<"f">>, <<"vv">> >>})
                      ELSE ListVal(<< <<"raw">> >>)] }

Init ==
    /\ store \in InitStores
    /\ call = [p \in Procs |-> Idle]
    /\ last = [k \in Keys |-> NoPublish]

\* A client may start a call when it is not inside one.  A call that has
\* returned or raised leaves its outcome in the frame until the caller has
\* taken it.
Ready(p) == call[p].pc = "idle"
Finished(p) == call[p].pc \in {"done", "raised"}
Done(f, ret) == [op |-> f.op, pc |-> "done", ret |-> ret, args |-> f]
Raised(f, err) == [op |-> f.op, pc |-> "raised", err |-> err, args |-> f]

\* ------------------------------------------------- publish_dataframe
Min(a, b) == IF a < b THEN a ELSE b
Max(a, b) == IF a > b THEN a ELSE b

\* df.iloc[start:]: a negative start counts from the end, and a start
\* outside the frame is clipped to it.
ILocFrom(df, start) ==
    LET n  == Len(df)
        lo == IF start < 0 THEN Max(0, n + start) ELSE Min(start, n)
    IN  SubSeq(df, lo + 1, n)

\* Mutant of NewRows: the slice starts at the cursor itself.
NewRowsFromCursor(df, last_published_index) == ILocFrom(df, last_published_index)

\* new_rows = df.iloc[last_published_index + 1:]
NewRows(df, last_published_index) == ILocFrom(df, last_published_index + 1)

\* Mutant of RowCommands: the row is broadcast before it is appended.
RowCommandsBroadcastFirst(publish) ==
    IF publish THEN <<"publish", "rpush">> ELSE <<"rpush">>

\* The store commands of one turn of the loop, in the order of the body.
RowCommands(publish) == IF publish THEN <<"rpush", "publish">> ELSE <<"rpush">>

\* return len(df) - 1
PublishReturn(df) == Len(df) - 1

\* The command the call issues next, and the frame with it logged.
CurrentCommand(f) == RowCommands(f.publish)[f.j]
Issued(f) ==
    [f EXCEPT !.cmds = Append(@, [cmd |-> CurrentCommand(f), key |-> f.key,
                                  payload |-> ToJson(f.new_rows[f.i])])]

\* After a command that succeeded: the next command of the row, else the
\* next row, else the return.
Advance(f) ==
    IF f.j < Len(RowCommands(f.publish)) THEN [f EXCEPT !.j = @ + 1]
    ELSE IF f.i < Len(f.new_rows) THEN [f EXCEPT !.i = @ + 1, !.j = 1]
    ELSE Done(f, PublishReturn(f.df))

\* The model keeps a list within MaxList entries.
ListRoom(s, key, n) ==
    (IF s[key].type = "list" THEN Len(s[key].items) ELSE 0) + n <= MaxList

PublishDataframeCall(p, df, key, last_published_index, publish) ==
    /\ Ready(p)
    /\ LET new_rows == NewRows(df, last_published_index)
           f == [op |-> "publish_dataframe", pc |-> "loop", df |-> df, key |-> key,
                 last_published_index |-> last_published_index, publish |-> publish,
                 new_rows |-> new_rows, i |-> 1, j |-> 1, cmds |-> <<>>,
                 pre |-> store[key]]
       IN  /\ ListRoom(store, key, Len(new_rows))
           /\ call' = [call EXCEPT ![p] =
                          IF new_rows = <<>> THEN Done(f, PublishReturn(df)) ELSE f]
    /\ UNCHANGED <<store, last>>

InPublishLoop(p) == call[p].op = "publish_dataframe" /\ call[p].pc = "loop"

\* self.r.rpush(key, row_json): a key of another type answers WRONGTYPE.
PublishDataframeRPush(p) ==
    /\ InPublishLoop(p)
    /\ CurrentCommand(call[p]) = "rpush"
    /\ LET f == Issued(call[p])
           row_json == ToJson(f.new_rows[f.i])
       IN  IF CanRPush(store, f.key)
           THEN /\ store' = RPush(store, f.key, row_json)
                /\ call' = [call EXCEPT ![p] = Advance(f)]
                /\ last' = [last EXCEPT ![f.key] = NoPublish]
           ELSE /\ call' = [call EXCEPT ![p] = Raised(f, "ResponseError")]
                /\ UNCHANGED <<store, last>>

\* self.r.publish(key, row_json)
PublishDataframePublish(p) ==
    /\ InPublishLoop(p)
    /\ CurrentCommand(call[p]) = "publish"
    /\ call' = [call EXCEPT ![p] = Advance(Issued(call[p]))]
    /\ UNCHANGED <<store, last>>

\* Mutant of PublishDataframeFail: the failed call puts the key back as it
\* found it.
PublishDataframeFailRollback(p) ==
    /\ InPublishLoop(p)
    /\ call' = [call EXCEPT ![p] = Raised(Issued(call[p]), "ConnectionError")]
    /\ store' = [store EXCEPT ![call[p].key] = call[p].pre]
    /\ UNCHANGED last

\* The transport fails on the command being issued: the call raises.  An
\* RPUSH whose answer was lost may have been carried out by the server.
PublishDataframeFail(p) ==
    /\ InPublishLoop(p)
    /\ LET f == Issued(call[p])
           row_json == ToJson(f.new_rows[f.i])
       IN  /\ call' = [call EXCEPT ![p] = Raised(f, "ConnectionError")]
           /\ \/ UNCHANGED <<store, last>>
              \/ /\ CurrentCommand(call[p]) = "rpush"
                 /\ CanRPush(store, f.key)
                 /\ store' = RPush(store, f.key, row_json)
                 /\ last' = [last EXCEPT ![f.key] = NoPublish]

\* The cursors tried: from -1 (nothing published yet) to past the end of the
\* frame; the key the frames are published to.
Cursors == -1 .. MaxRows
FrameKeys == {"a"}

NextPublishDataframe(p) ==
    \/ \E df \in DataFrames, key \in FrameKeys, c \in Cursors, publish \in BOOLEAN :
          PublishDataframeCall(p, df, key, c, publish)
    \/ PublishDataframeRPush(p)
    \/ PublishDataframePublish(p)
    \/ PublishDataframeFail(p)

\* ------------------------- publish_to_redis_json, publish_to_redis_str
Command(cmd, key, payload) == [cmd |-> cmd, key |-> key, payload |-> payload]

\* The commands of a value publication: SET, then PUBLISH when asked.
ValueCommands(key, payload, publish) ==
    <<Command("set", key, payload)>>
    \o (IF publish THEN <<Command("publish", key, payload)>> ELSE <<>>)

PublishToRedisJson(p, data, key, publish) ==
    /\ Ready(p)
    /\ LET json_data == Dumps(data)
           f == [op |-> "publish_to_redis_json", data |-> data, key |-> key,
                 publish |-> publish,
                 cmds |-> ValueCommands(key, json_data, publish)]
       IN  /\ store' = Set(store, key, json_data)
           /\ call' = [call EXCEPT ![p] = Done(f, PyNone)]
    /\ last' = [last EXCEPT ![key] = [variant |-> "json", data |-> data]]

\* data is a str, so str(data) is data; the closing self.r.get(key) reads
\* the value back for the log line and decodes it.
PublishToRedisStr(p, data, key, publish) ==
    /\ Ready(p)
    /\ LET f == [op |-> "publish_to_redis_str", data |-> data, key |-> key,
                 publish |-> publish,
                 cmds |-> Append(ValueCommands(key, data, publish),
                                 Command("get", key, <<>>))]
           qb == Get(Set(store, key, data), key)
       IN  /\ store' = Set(store, key, data)
           /\ call' = [call EXCEPT ![p] =
                          IF qb.ok /\ qb.found THEN Done(f, PyNone)
                          ELSE Raised(f, "AttributeError")]
    /\ last' = [last EXCEPT ![key] = [variant |-> "str", data |-> data]]

\* ---------------------------------------------------------- retrieval
\* A str as a handler returns it, and a DataFrame as its rows in order.
PyText(text) == [t |-> "text", text |-> text]
PyFrame(rows) == [t |-> "frame", rows |-> rows]

\* pd.to_datetime of an integer reads it in its default unit, nanoseconds.
DefaultUnitNs == 1
ToDatetime(n) == n * DefaultUnitNs

DictHas(d, name) == \E j \in 1 .. Len(d.pairs) : d.pairs[j][1] = name
DictGet(d, name) ==
    d.pairs[CHOOSE j \in 1 .. Len(d.pairs) : d.pairs[j][1] = name][2]

\* df.drop_duplicates(subset=['timestamp'], keep='last'): a row stays when no
\* later row has its timestamp.
RECURSIVE DropDuplicatesKeepLast(_)
DropDuplicatesKeepLast(rows) ==
    IF rows = <<>> THEN <<>>
    ELSE IF \E j \in 2 .. Len(rows) : rows[j].timestamp = rows[1].timestamp
         THEN DropDuplicatesKeepLast(Tail(rows))
         ELSE <<Head(rows)>> \o DropDuplicatesKeepLast(Tail(rows))

\* df.sort_values(by='timestamp'): ascending; the timestamps are distinct by
\* then, so the order is determined.
RECURSIVE SortByTimestamp(_)
SortByTimestamp(rows) ==
    IF rows = <<>> THEN <<>>
    ELSE LET m == CHOOSE j \in 1 .. Len(rows) :
                     \A k \in 1 .. Len(rows) :
                        \/ rows[j].timestamp < rows[k].timestamp
                        \/ (rows[j].timestamp = rows[k].timestamp /\ j <= k)
         IN  <<rows[m]>>
             \o SortByTimestamp(SubSeq(rows, 1, m - 1) \o SubSeq(rows, m + 1, Len(rows)))

\* The body of retrieve_dataframe_from_redis after the LRANGE: the outcome
\* for the list entries data.
FrameOfEntries(data) ==
    LET parsed == [j \in 1 .. Len(data) |-> Loads(data[j])] IN
    IF \E j \in 1 .. Len(data) : ~parsed[j].ok
    THEN [ok |-> FALSE, err |-> "JSONDecodeError"]
    ELSE IF data = <<>>
            \/ \E j \in 1 .. Len(data) :
                  parsed[j].val.t # "dict" \/ ~DictHas(parsed[j].val, "timestamp")
    THEN [ok |-> FALSE, err |-> "KeyError"]
    ELSE LET df == [j \in 1 .. Len(data) |->
                       [timestamp |-> ToDatetime(DictGet(parsed[j].val, "timestamp").n),
                        value     |-> DictGet(parsed[j].val, "value").n]]
         IN  Ok(PyFrame(SortByTimestamp(DropDuplicatesKeepLast(df))))

RetrieveDataframeFromRedis(p, key) ==
    /\ Ready(p)
    /\ LET f == [op |-> "retrieve_dataframe_from_redis", key |-> key]
           data == LRange(store, key)
           df == FrameOfEntries(data.val)
       IN  call' = [call EXCEPT ![p] =
                       IF ~data.ok THEN Raised(f, data.err)
                       ELSE IF ~df.ok THEN Raised(f, df.err)
                       ELSE Done(f, df.val)]
    /\ UNCHANGED <<store, last>>

RetrieveJsonFromRedis(p, key) ==
    /\ Ready(p)
    /\ LET f == [op |-> "retrieve_json_from_redis", key |-> key]
           json_data == Get(store, key)
           v == Loads(json_data.val)
       IN  call' = [call EXCEPT ![p] =
                       IF ~json_data.ok THEN Raised(f, json_data.err)
                       ELSE IF ~json_data.found THEN Done(f, PyNone)
                       ELSE IF ~v.ok THEN Raised(f, "JSONDecodeError")
                       ELSE Done(f, v.val)]
    /\ UNCHANGED <<store, last>>

RetrieveStrFromRedis(p, key) ==
    /\ Ready(p)
    /\ LET f == [op |-> "retrieve_str_from_redis", key |-> key]
           data == Get(store, key)
       IN  call' = [call EXCEPT ![p] =
                       IF ~data.ok THEN Raised(f, data.err)
                       ELSE IF ~data.found THEN Done(f, PyNone)
                       ELSE Done(f, PyText(data.val))]
    /\ UNCHANGED <<store, last>>

NextValues(p) ==
    \/ \E data \in JsonValues, key \in Keys, publish \in BOOLEAN :
          PublishToRedisJson(p, data, key, publish)
    \/ \E data \in PlainValues, key \in Keys, publish \in BOOLEAN :
          PublishToRedisStr(p, data, key, publish)
    \/ \E key \in Keys : RetrieveDataframeFromRedis(p, key)
    \/ \E key \in Keys : RetrieveJsonFromRedis(p, key)
    \/ \E key \in Keys : RetrieveStrFromRedis(p, key)

\* ---------------------------------------------- delete_keys, get_all_keys
\* The arguments tried: one key as a str, or a list of keys (the empty list
\* and lists that repeat a key included).
DeleteArgs == {PyStr(k) : k \in Keys} \cup {PyList(q) : q \in SeqsUpTo(Keys, MaxKeys)}

\* if isinstance(keys, str): keys = [keys]
KeyList(keys) == IF keys.t = "str" THEN <<keys.s>> ELSE keys.items

DeleteReport(f) ==
    [deleted_count |-> f.deleted_count, non_existent_keys |-> f.non_existent_keys]

\* The next key of the loop, or the return of the report.
DeleteAdvance(f) ==
    IF f.i < Len(f.keys) THEN [f EXCEPT !.i = @ + 1, !.pc = "exists"]
    ELSE Done(f, DeleteReport(f))

\* Mutant of DeleteOnMissing: the missing key is put at the front of the list.
DeleteOnMissingPrepended(f) ==
    DeleteAdvance([f EXCEPT !.non_existent_keys = <<f.keys[f.i]>> \o @])

\* else: non_existent_keys.append(key)
DeleteOnMissing(f) ==
    DeleteAdvance([f EXCEPT !.non_existent_keys = Append(@, f.keys[f.i])])

\* self.r.delete(key); deleted_count += 1.  The answer of DEL is not read:
\* removed (history) counts the keys this call's DEL did take away.
DeleteOnDeleted(f, was_there) ==
    DeleteAdvance([f EXCEPT !.deleted_count = @ + 1,
                            !.removed = @ + (IF was_there THEN 1 ELSE 0)])

DeleteKeysCall(p, keys) ==
    /\ Ready(p)
    /\ LET f == [op |-> "delete_keys", pc |-> "exists", arg |-> keys,
                 keys |-> KeyList(keys), i |-> 1, non_existent_keys |-> <<>>,
                 deleted_count |-> 0, removed |-> 0, pre |-> store]
       IN  call' = [call EXCEPT ![p] =
                       IF f.keys = <<>> THEN Done(f, DeleteReport(f)) ELSE f]
    /\ UNCHANGED <<store, last>>

\* if self.r.exists(key):
DeleteKeysExists(p) ==
    /\ call[p].op = "delete_keys" /\ call[p].pc = "exists"
    /\ LET f == call[p] IN
       call' = [call EXCEPT ![p] =
                   IF Exists(store, f.keys[f.i]) THEN [f EXCEPT !.pc = "delete"]
                   ELSE DeleteOnMissing(f)]
    /\ UNCHANGED <<store, last>>

\* self.r.delete(key)
DeleteKeysDelete(p) ==
    /\ call[p].op = "delete_keys" /\ call[p].pc = "delete"
    /\ LET f == call[p]
           key == f.keys[f.i]
       IN  /\ store' = Del(store, key)
           /\ call' = [call EXCEPT ![p] = DeleteOnDeleted(f, Exists(store, key))]
           /\ last' = [last EXCEPT ![key] = NoPublish]

\* self.r.keys('*'): the keys in the order the server lists them.
GetAllKeys(p) ==
    /\ Ready(p)
    /\ \E all_keys \in Perms(AllKeys(store)) :
          call' = [call EXCEPT ![p] = Done([op |-> "get_all_keys"], PyList(all_keys))]
    /\ UNCHANGED <<store, last>>

NextKeys(p) ==
    \/ \E keys \in DeleteArgs : DeleteKeysCall(p, keys)
    \/ DeleteKeysExists(p)
    \/ DeleteKeysDelete(p)

\* ------------------------------------ get_key_stats, get_keys_dataframe
\* size_bytes / (1024 * 1024), kept as the fraction it is.
Mebibytes(size_bytes) == [num |-> size_bytes, den |-> 1024 * 1024]
MBLeq(x, y) == x.num * y.den <= y.num * x.den

\* f"Key '{key}' does not exist in Redis."
NotFound(key) == [t |-> "str", key |-> key, msg |-> "does not exist in Redis"]

\* The stats dictionary as first built, and with a count and a size filled in.
NewStats(key, key_type) ==
    [t |-> "dict", Key |-> key, Type |-> key_type, NumberOfItems |-> 0,
     SizeBytes |-> 0, SizeMB |-> Mebibytes(0)]
WithCount(stats, num_items) == [stats EXCEPT !.NumberOfItems = num_items]
WithSize(stats, size_bytes) ==
    [stats EXCEPT !.SizeBytes = size_bytes, !.SizeMB = Mebibytes(size_bytes)]

\* The branch taken on key_type: the command issued next, if any.
StatsBranch(key_type) ==
    CASE key_type = "string" -> "strlen"
      [] key_type \in {"list", "set", "zset", "hash"} -> "count"
      [] OTHER -> "none"

\* (key_str, stats['Type'], stats['Number of Items'], stats['Size (Bytes)'],
\*  stats['Size (MB)'])
DataRow(key_str, stats) ==
    [Key |-> key_str, Type |-> stats.Type, NumberOfItems |-> stats.NumberOfItems,
     SizeBytes |-> stats.SizeBytes, SizeMB |-> stats.SizeMB]

Range(q) == {q[j] : j \in 1 .. Len(q)}

\* Mutant of SortedBySizeMB: the rows are sorted descending.
SortedBySizeMBDescending(data) ==
    {q \in Perms(Range(data)) :
        \A j \in 1 .. Len(q) - 1 : MBLeq(q[j + 1].SizeMB, q[j].SizeMB)}

\* df.sort_values(by='Size (MB)', ascending=True): the sort is not stable, so
\* rows of equal size come out in either order.
SortedBySizeMB(data) ==
    {q \in Perms(Range(data)) :
        \A j \in 1 .. Len(q) - 1 : MBLeq(q[j].SizeMB, q[j + 1].SizeMB)}

\* get_key_stats returns result: to its caller, or into the loop of
\* get_keys_dataframe, which indexes it as a dictionary.
StatsFinish(f, result) ==
    IF f.op = "get_key_stats" THEN {Done(f, result)}
    ELSE IF result.t = "str" THEN {Raised(f, "TypeError")}
    ELSE LET g == [f EXCEPT !.data = Append(@, DataRow(f.key, result))] IN
         IF g.i < Len(g.all_keys)
         THEN {[g EXCEPT !.i = @ + 1, !.key = g.all_keys[g.i + 1], !.pc = "exists"]}
         ELSE {Done(g, PyFrame(q)) : q \in SortedBySizeMB(g.data)}

StatsFrame(op, pc, key) ==
    [op |-> op, pc |-> pc, key |-> key, all_keys |-> <<>>, i |-> 0, data |-> <<>>,
     stats |-> NewStats(key, "none")]

GetKeyStatsCall(p, key) ==
    /\ Ready(p)
    /\ call' = [call EXCEPT ![p] = StatsFrame("get_key_stats", "exists", key)]
    /\ UNCHANGED <<store, last>>

GetKeysDataframeCall(p) ==
    /\ Ready(p)
    /\ call' = [call EXCEPT ![p] = StatsFrame("get_keys_dataframe", "keys", "")]
    /\ UNCHANGED <<store, last>>

InStats(p, pc) ==
    call[p].op \in {"get_key_stats", "get_keys_dataframe"} /\ call[p].pc = pc

\* all_keys = self.get_all_keys(); no key at all gives the empty table.
GetKeysDataframeKeys(p) ==
    /\ InStats(p, "keys")
    /\ \E all_keys \in Perms(AllKeys(store)) :
          call' = [call EXCEPT ![p] =
                      IF all_keys = <<>> THEN Done(call[p], PyFrame(<<>>))
                      ELSE [call[p] EXCEPT !.all_keys = all_keys, !.i = 1,
                                           !.key = all_keys[1], !.pc = "exists"]]
    /\ UNCHANGED <<store, last>>

\* if not self.r.exists(key): return the message
StatsExists(p) ==
    /\ InStats(p, "exists")
    /\ LET f == call[p] IN
       \E g \in (IF Exists(store, f.key) THEN {[f EXCEPT !.pc = "type"]}
                 ELSE StatsFinish(f, NotFound(f.key))) :
          call' = [call EXCEPT ![p] = g]
    /\ UNCHANGED <<store, last>>

\* key_type = self.r.type(key), and the branch on it
StatsType(p) ==
    /\ InStats(p, "type")
    /\ LET key_type == TypeOf(store, call[p].key)
           f == [call[p] EXCEPT !.stats = NewStats(call[p].key, key_type)]
       IN  \E g \in (IF StatsBranch(key_type) = "none" THEN StatsFinish(f, f.stats)
                     ELSE {[f EXCEPT !.pc = StatsBranch(key_type)]}) :
              call' = [call EXCEPT ![p] = g]
    /\ UNCHANGED <<store, last>>

\* size_bytes = self.r.strlen(key); one item
StatsStrlen(p) ==
    /\ InStats(p, "strlen")
    /\ LET f == call[p]
           size_bytes == Strlen(store, f.key)
       IN  \E g \in (IF ~size_bytes.ok THEN {Raised(f, size_bytes.err)}
                     ELSE StatsFinish(f, WithSize(WithCount(f.stats, 1), size_bytes.val))) :
              call' = [call EXCEPT ![p] = g]
    /\ UNCHANGED <<store, last>>

\* num_items = llen / scard / zcard / hlen
StatsCount(p) ==
    /\ InStats(p, "count")
    /\ LET f == call[p]
           num_items == CountItems(store, f.key, f.stats.Type)
       IN  call' = [call EXCEPT ![p] =
                       IF ~num_items.ok THEN Raised(f, num_items.err)
                       ELSE [f EXCEPT !.stats = WithCount(@, num_items.val), !.pc = "scan"]]
    /\ UNCHANGED <<store, last>>

\* size_bytes = sum(len(...)) over lrange / smembers / zscan_iter / hgetall
StatsScan(p) ==
    /\ InStats(p, "scan")
    /\ LET f == call[p]
           size_bytes == ScanSize(store, f.key, f.stats.Type)
       IN  \E g \in (IF ~size_bytes.ok THEN {Raised(f, size_bytes.err)}
                     ELSE StatsFinish(f, WithSize(f.stats, size_bytes.val))) :
              call' = [call EXCEPT ![p] = g]
    /\ UNCHANGED <<store, last>>

NextStats(p) ==
    \/ \E key \in Keys : GetKeyStatsCall(p, key)
    \/ GetKeysDataframeCall(p)
    \/ GetKeysDataframeKeys(p)
    \/ StatsExists(p)
    \/ StatsType(p)
    \/ StatsStrlen(p)
    \/ StatsCount(p)
    \/ StatsScan(p)

\* ----------------------------------------------------- specifications
\* The caller takes the outcome of a finished call.
Return(p) ==
    /\ Finished(p)
    /\ call' = [call EXCEPT ![p] = Idle]
    /\ UNCHANGED <<store, last>>

\* One client: every call runs to its end before the next starts.
Next ==
    \/ NextPublishDataframe(1)
    \/ NextValues(1)
    \/ GetAllKeys(1)
    \/ NextKeys(1)
    \/ NextStats(1)
    \/ Return(1)

Spec == Init /\ [][Next]_vars

\* Two clients on the same database, their store commands interleaved.
NextConc ==
    \E p \in Procs :
        \/ NextKeys(p)
        \/ NextStats(p)
        \/ Return(p)

SpecConc == Init /\ [][NextConc]_vars

\* ----------------------------------------------------------- claims
\* The frame of a client's call: the running frame, or the frame the call
\* finished with.
Frame(p) == IF Finished(p) THEN call[p].args ELSE call[p]
IsPrefix(q, r) == Len(q) <= Len(r) /\ q = SubSeq(r, 1, Len(q))
ListItems(v) == IF v.type = "list" THEN v.items ELSE <<>>
AsList(items) == IF items = <<>> THEN Absent ELSE ListVal(items)
JsonOfRows(rows) == [j \in 1 .. Len(rows) |-> ToJson(rows[j])]

\* C1: a publish_dataframe call with cursor c >= -1 that returns has appended
\* the rows at positions c+1 .. len(T)-1, in row order, after what the key's
\* list already held (len(T)-1-c entries; none when c >= len(T)-1), and
\* returns len(T)-1.  On a key that holds a list or nothing the call is not
\* refused by the store.
C1_PublishAppendsNewRows ==
    \A p \in Procs :
       call[p].op = "publish_dataframe" /\ Finished(p) /\ Frame(p).last_published_index >= -1 =>
          LET f == Frame(p)
              n == Len(f.df)
              c == f.last_published_index
              count == IF c >= n - 1 THEN 0 ELSE n - 1 - c
              expected == [j \in 1 .. count |-> ToJson(f.df[c + j + 1])]
          IN  /\ call[p].pc = "done" =>
                    /\ call[p].ret = n - 1
                    /\ store[f.key] = IF count = 0 THEN f.pre
                                      ELSE ListVal(ListItems(f.pre) \o expected)
                    /\ Len(ListItems(store[f.key])) = Len(ListItems(f.pre)) + count
              /\ call[p].pc = "raised" /\ call[p].err = "ResponseError" =>
                    f.pre.type \notin {"none", "list"}

C1_Witness ==
    /\ call[1].op = "publish_dataframe" /\ call[1].pc = "done"
    /\ call[1].args.last_published_index = 0
    /\ Len(call[1].args.df) = 2
    /\ Len(ListItems(call[1].args.pre)) = 1
    /\ Len(ListItems(store[call[1].args.key])) = 2
    /\ call[1].ret = 1

\* The commands a broadcasting publish_dataframe issues for its new rows:
\* append(row 1), broadcast(row 1), append(row 2), broadcast(row 2), ...
RECURSIVE AppendThenBroadcast(_, _)
AppendThenBroadcast(key, rows) ==
    IF rows = <<>> THEN <<>>
    ELSE << [cmd |-> "rpush", key |-> key, payload |-> ToJson(Head(rows))],
            [cmd |-> "publish", key |-> key, payload |-> ToJson(Head(rows))] >>
         \o AppendThenBroadcast(key, Tail(rows))

\* C2: in every state of a broadcasting publish_dataframe call, the commands
\* issued so far are a prefix of append(row i), broadcast(row i),
\* append(row i+1), ..., and every row whose broadcast was issued is an entry
\* of the key's list already.
C2_AppendBeforeBroadcast ==
    \A p \in Procs :
       call[p].op = "publish_dataframe" /\ Frame(p).publish =>
          LET f == Frame(p) IN
          /\ IsPrefix(f.cmds, AppendThenBroadcast(f.key, f.new_rows))
          /\ \A j \in 1 .. Len(f.cmds) :
                f.cmds[j].cmd = "publish" =>
                   /\ store[f.key].type = "list"
                   /\ \E m \in 1 .. Len(store[f.key].items) :
                         /\ store[f.key].items[m] = f.cmds[j].payload
                         /\ m > Len(ListItems(f.pre))

C2_Witness ==
    /\ call[1].op = "publish_dataframe" /\ call[1].pc = "loop"
    /\ call[1].publish
    /\ call[1].i = 2 /\ call[1].j = 2
    /\ Len(call[1].cmds) = 3
    /\ call[1].cmds[2].cmd = "publish"

\* C3: when a store command fails at the row at place k of the new rows, the
\* call raises and returns no cursor, the rows before k stay appended, row k
\* is appended exactly if its append was carried out, and no command was
\* issued for a later row.
C3_FailureLeavesPrefix ==
    \A p \in Procs :
       call[p].op = "publish_dataframe" /\ call[p].pc = "raised" =>
          LET f == call[p].args
              k == f.i
              sent == f.cmds[Len(f.cmds)].cmd
              upto(m) == AsList(ListItems(f.pre) \o JsonOfRows(SubSeq(f.new_rows, 1, m)))
          IN  /\ "ret" \notin DOMAIN call[p]
              /\ IF f.pre.type \notin {"none", "list"} THEN store[f.key] = f.pre
                 ELSE IF sent = "publish" THEN store[f.key] = upto(k)
                 ELSE store[f.key] \in {upto(k - 1), upto(k)}
              /\ Len(f.cmds) <= k * Len(RowCommands(f.publish))
              /\ \A j \in 1 .. Len(f.cmds) :
                    \E m \in 1 .. k : f.cmds[j].payload = ToJson(f.new_rows[m])

C3_Witness ==
    /\ call[1].op = "publish_dataframe" /\ call[1].pc = "raised"
    /\ call[1].err = "ConnectionError"
    /\ call[1].args.i = 2
    /\ call[1].args.df[1] # call[1].args.df[2]
    /\ call[1].args.pre = Absent
    /\ store[call[1].args.key] = ListVal(<<ToJson(call[1].args.df[1])>>)

\* A frame whose timestamps are unique and already ascending.
UniqueSorted(df) == \A j \in 1 .. Len(df) - 1 : df[j].timestamp < df[j + 1].timestamp

\* The row the list entry encodes, as retrieval reads it.
RowOfEntry(entry) ==
    LET d == Loads(entry).val IN
    [timestamp |-> DictGet(d, "timestamp").n, value |-> DictGet(d, "value").n]
IsRowEntry(entry) ==
    /\ Loads(entry).ok
    /\ Loads(entry).val.t = "dict"
    /\ DictHas(Loads(entry).val, "timestamp")

\* The first half of C4: over a list of row entries the retrieved frame has
\* one row per timestamp of the list, the entry appended last, in ascending
\* order of timestamp.
C4_OneRowPerTimestampAscending ==
    \A p \in Procs :
       /\ call[p].op = "retrieve_dataframe_from_redis" /\ Finished(p)
       /\ store[Frame(p).key].type = "list"
       /\ \A m \in 1 .. Len(store[Frame(p).key].items) : IsRowEntry(store[Frame(p).key].items[m])
       => LET items == store[Frame(p).key].items
              rows == call[p].ret.rows
              lastOf(ts) == CHOOSE m \in 1 .. Len(items) :
                               /\ RowOfEntry(items[m]).timestamp = ts
                               /\ \A m2 \in m + 1 .. Len(items) :
                                     RowOfEntry(items[m2]).timestamp # ts
          IN  /\ call[p].pc = "done"
              /\ {rows[j].timestamp : j \in 1 .. Len(rows)}
                    = {RowOfEntry(items[m]).timestamp : m \in 1 .. Len(items)}
              /\ \A j \in 1 .. Len(rows) : rows[j] = RowOfEntry(items[lastOf(rows[j].timestamp)])
              /\ \A j \in 1 .. Len(rows) - 1 : rows[j].timestamp < rows[j + 1].timestamp

\* C4: table retrieval returns one row per distinct timestamp of the list
\* (the entry appended last), ascending by timestamp, and so, over the list
\* that publishing a frame with unique, sorted timestamps to an empty key
\* leaves, the rows of that frame, equal in content and order.
C4_RetrieveRoundTrip ==
    /\ C4_OneRowPerTimestampAscending
    /\ \A p \in Procs :
          call[p].op = "retrieve_dataframe_from_redis" /\ Finished(p) =>
             \A df \in DataFrames :
                /\ df # <<>>
                /\ UniqueSorted(df)
                /\ store[Frame(p).key] = ListVal(JsonOfRows(df))
                => call[p].pc = "done" /\ call[p].ret.rows = df

\* C5: the matching retrieval returns the value of the latest
\* publish_to_redis_json / publish_to_redis_str made to the key since it was
\* last deleted, and None, without raising, for a key that does not exist.
C5_RetrieveLatestValue ==
    /\ \A k \in Keys : last[k].variant # "none" => store[k].type = "string"
    /\ \A p \in Procs :
          Finished(p) /\ call[p].op \in {"retrieve_json_from_redis", "retrieve_str_from_redis"} =>
             LET k == Frame(p).key IN
             /\ ~Exists(store, k) => call[p].pc = "done" /\ call[p].ret = PyNone
             /\ call[p].op = "retrieve_json_from_redis" /\ last[k].variant = "json" =>
                   call[p].pc = "done" /\ call[p].ret = last[k].data
             /\ call[p].op = "retrieve_str_from_redis" /\ last[k].variant = "str" =>
                   call[p].pc = "done" /\ call[p].ret = PyText(last[k].data)

C5_Witness ==
    /\ call[1].op = "retrieve_json_from_redis" /\ call[1].pc = "done"
    /\ last[call[1].args.key].variant = "json"
    /\ call[1].ret = PyDict(<<<<"k", PyList(<<PyNone>>)>>, <<"a", PyInt(2)>>>>)

\* The entries of q that satisfy keep(place), in order.
RECURSIVE Kept(_, _, _)
Kept(q, places, j) ==
    IF j > Len(q) THEN <<>>
    ELSE (IF j \in places THEN <<q[j]>> ELSE <<>>) \o Kept(q, places, j + 1)

\* C6 as stated: delete_keys returns the number of input keys that existed
\* when the call started and, in input order, exactly the input keys that
\* did not; the two add up to the number of input keys; afterwards no input
\* key exists and every other key is unchanged; it never raises.
C6_DeleteReportAsStated ==
    \A p \in Procs :
       call[p].op = "delete_keys" /\ Finished(p) =>
          LET f == Frame(p)
              in == f.keys
              was == {j \in 1 .. Len(in) : Exists(f.pre, in[j])}
          IN  /\ call[p].pc = "done"
              /\ call[p].ret.deleted_count = Cardinality(was)
              /\ call[p].ret.non_existent_keys = Kept(in, (1 .. Len(in)) \ was, 1)
              /\ call[p].ret.deleted_count + Len(call[p].ret.non_existent_keys) = Len(in)
              /\ \A k \in Keys : store[k] = IF k \in Range(in) THEN Absent ELSE f.pre[k]

\* C6 amended: the deleted count is the number of distinct input keys that
\* existed when the call started; the non-existent list holds, in input
\* order, every input entry whose key did not exist then or repeats an
\* earlier entry; the two add up to the number of input entries; afterwards
\* no input key exists and every other key is unchanged; it never raises.
C6_DeleteReport ==
    \A p \in Procs :
       call[p].op = "delete_keys" /\ Finished(p) =>
          LET f == Frame(p)
              in == f.keys
              skipped == {j \in 1 .. Len(in) :
                             \/ ~Exists(f.pre, in[j])
                             \/ \E m \in 1 .. j - 1 : in[m] = in[j]}
          IN  /\ call[p].pc = "done"
              /\ call[p].ret.deleted_count = Cardinality({k \in Range(in) : Exists(f.pre, k)})
              /\ call[p].ret.non_existent_keys = Kept(in, skipped, 1)
              /\ call[p].ret.deleted_count + Len(call[p].ret.non_existent_keys) = Len(in)
              /\ \A k \in Keys : store[k] = IF k \in Range(in) THEN Absent ELSE f.pre[k]

C6_Witness ==
    /\ call[1].op = "delete_keys" /\ call[1].pc = "done"
    /\ call[1].args.arg = PyList(<<"a", "b">>)
    /\ Exists(call[1].args.pre, "a") /\ ~Exists(call[1].args.pre, "b")
    /\ call[1].ret = [deleted_count |-> 1, non_existent_keys |-> <<"b">>]

RECURSIVE SumSeq(_)
SumSeq(nums) == IF nums = <<>> THEN 0 ELSE Head(nums) + SumSeq(Tail(nums))
Listed(S) == CHOOSE q \in Perms(S) : TRUE

\* What the claims say get_key_stats reports for an existing key.
StatsAsClaimed(s, key) ==
    LET v == s[key]
        count == CASE v.type = "string" -> 1
                   [] v.type = "list"   -> Len(v.items)
                   [] v.type = "set"    -> Cardinality(v.members)
                   [] v.type = "zset"   -> Cardinality(v.scored)
                   [] v.type = "hash"   -> Cardinality(v.fields)
        size  == CASE v.type = "string" -> ByteLen(v.text)
                   [] v.type = "list"   ->
                        SumSeq([j \in 1 .. Len(v.items) |-> ByteLen(v.items[j])])
                   [] v.type = "set"    ->
                        SumSeq([j \in 1 .. Cardinality(v.members) |->
                                   ByteLen(Listed(v.members)[j])])
                   [] v.type = "zset"   ->
                        SumSeq([j \in 1 .. Cardinality(v.scored) |->
                                   ByteLen(Listed(v.scored)[j][1])])
                   [] v.type = "hash"   ->
                        SumSeq([j \in 1 .. Cardinality(v.fields) |->
                                   ByteLen(Listed(v.fields)[j][1])
                                   + ByteLen(Listed(v.fields)[j][2])])
    IN  [Key |-> key, Type |-> v.type, NumberOfItems |-> count, SizeBytes |-> size,
         SizeMB |-> [num |-> size, den |-> 1048576]]

\* C7: get_key_stats never raises; for an absent key it returns the
\* not-found message, and for an existing key the type the store reports
\* with the item count and byte size of that type (string: 1 and the byte
\* length; list, set, sorted set, hash: the number of items and the summed
\* byte lengths of elements, members, member names, field names plus values).
C7_KeyStatsPerKind ==
    \A p \in Procs :
       call[p].op = "get_key_stats" /\ Finished(p) =>
          LET key == Frame(p).key IN
          /\ call[p].pc = "done"
          /\ ~Exists(store, key) => call[p].ret = NotFound(key)
          /\ Exists(store, key) =>
                /\ call[p].ret.t = "dict"
                /\ DataRow(key, call[p].ret) = StatsAsClaimed(store, key)
                /\ call[p].ret.Key = key

C7_Witness ==
    /\ call[1].op = "get_key_stats" /\ call[1].pc = "done"
    /\ store[call[1].args.key].type = "hash"
    /\ call[1].ret.Type = "hash"
    /\ call[1].ret.NumberOfItems = 1
    /\ call[1].ret.SizeBytes = 3

\* C8: get_keys_dataframe never raises with a single client; its table has
\* one row for every key of the database and no other, the row carrying the
\* type, item count, byte size and mebibyte size of the key, the rows
\* ascending by size; a database without keys gives the empty table.
C8_KeysDataframeSorted ==
    \A p \in Procs :
       call[p].op = "get_keys_dataframe" /\ Finished(p) =>
          /\ call[p].pc = "done"
          /\ LET rows == call[p].ret.rows IN
             /\ Len(rows) = Cardinality(AllKeys(store))
             /\ Range(rows) = {StatsAsClaimed(store, k) : k \in AllKeys(store)}
             /\ \A j \in 1 .. Len(rows) - 1 :
                   rows[j].SizeMB.num * rows[j + 1].SizeMB.den
                      <= rows[j + 1].SizeMB.num * rows[j].SizeMB.den

C8_Witness ==
    /\ call[1].op = "get_keys_dataframe" /\ call[1].pc = "done"
    /\ Len(call[1].ret.rows) = 2
    /\ call[1].ret.rows[1].Key = "b"
    /\ call[1].ret.rows[1].SizeBytes < call[1].ret.rows[2].SizeBytes

\* C9: the deleted count a delete_keys call reports is the number of keys
\* that this call's own DEL removed, so that no key removed once is counted
\* by two calls.
C9_DeletedCountIsOwnRemovals ==
    \A p \in Procs :
       call[p].op = "delete_keys" /\ call[p].pc = "done" =>
          call[p].ret.deleted_count = call[p].args.removed

\* C10: get_keys_dataframe completes without raising, also when a key is
\* deleted between the enumeration of the keys and its get_key_stats call.
C10_KeysDataframeNeverRaises ==
    \A p \in Procs : call[p].op = "get_keys_dataframe" => call[p].pc # "raised"

=============================================================================
